---- MODULE Spec2Model ----
(***************************************************************************)
(* The bootstrap of the stock service (apps/stock/src/main.ts) run as      *)
(* processes on one POSIX host (the guide runs the services on Linux:      *)
(* node:20-alpine, lsof), next to the auth service of the guide.           *)
(*                                                                         *)
(*   async function bootstrap() {                                          *)
(*     console.log('Stock Service Starting...');                           *)
(*     const app = await NestFactory.create(StockModule);                  *)
(*     await app.listen(process.env.port ?? 3000);                         *)
(*   }                                                                     *)
(*   bootstrap();                                                          *)
(*                                                                         *)
(* Environment values are texts: sequences of one-character strings.       *)
(***************************************************************************)
EXTENDS Integers, Sequences, FiniteSets, TLC

VARIABLES env, pc, log, stderr, trace, listenArg, bound, failure, exitCode, conns

vars == <<env, pc, log, stderr, trace, listenArg, bound, failure, exitCode, conns>>

\* ---------------------------------------------------------------- bounds

\* connections one listening process holds open at a time
MaxConns == 1

\* ------------------------------------------------------------- constants

\* main.ts:7  `process.env.port ?? 3000`
DefaultPort == 3000

\* the guide: "auth/ # Authentication service (Port: 3000)"
AuthPort == 3000

\* the guide: "stock/ # Stock management service (Port: 3001)"
DocStockPort == 3001

\* main.ts:5
StartMsg == "Stock Service Starting..."

\* the largest port net.Server.listen accepts
MaxPort == 2^16 - 1

\* ports below this one need privilege to bind
PrivilegedLimit == 2^10

\* ports the host hands out for a bind to port 0
EphemeralPorts == {32768, 32769}

\* exit status of a process ended by SIGTERM with no handler installed
SignalExit == 128 + 15

\* ------------------------------------------------------------- processes

Stocks == {"stockA", "stockB"}
Auth == "auth"
Procs == Stocks \cup {Auth}

\* ------------------------------------------------------------------ text

Digits == <<"0", "1", "2", "3", "4", "5", "6", "7", "8", "9">>

IsDigit(c) == \E i \in 1..10 : Digits[i] = c

DigitVal(c) == (CHOOSE i \in 1..10 : Digits[i] = c) - 1

AllDigits(t) == Len(t) > 0 /\ \A i \in 1..Len(t) : IsDigit(t[i])

RECURSIVE DecVal(_)
DecVal(t) ==
    IF t = <<>> THEN 0
    ELSE DecVal(SubSeq(t, 1, Len(t) - 1)) * 10 + DigitVal(t[Len(t)])

\* JavaScript's Number(text), for texts over digits, "-" and letters
ToNumber(t) ==
    IF t = <<>> THEN [nan |-> FALSE, val |-> 0]
    ELSE IF AllDigits(t) THEN [nan |-> FALSE, val |-> DecVal(t)]
    ELSE IF t[1] = "-" /\ AllDigits(Tail(t))
         THEN [nan |-> FALSE, val |-> 0 - DecVal(Tail(t))]
    ELSE [nan |-> TRUE, val |-> 0]

\* the texts the environment variables take in the model
Texts == { <<"3", "0", "0", "1">>, <<"3", "0", "0", "0">>, <<"8", "0">>,
           <<"7", "0", "0", "0", "0">>, <<"0">>, <<"-", "1">>, <<"a">>, <<>> }

\* ----------------------------------------------------------- environment

Undefined == [def |-> FALSE, text |-> <<>>]
Str(t) == [def |-> TRUE, text |-> t]

EnvValues == {Undefined} \cup { Str(t) : t \in Texts }

\* process.env of one process: the two names are distinct variables on POSIX
Envs == [PORT : {Undefined, Str(<<"3", "0", "0", "1">>)}, port : EnvValues]

NoEnv == [PORT |-> Undefined, port |-> Undefined]

\* ------------------------------------------------------- listen arguments

NoArg == [kind |-> "none", text |-> <<>>, num |-> 0]
StrArg(t) == [kind |-> "string", text |-> t, num |-> 0]
NumArg(n) == [kind |-> "number", text |-> <<>>, num |-> n]

\* alternative readings of main.ts:7, used to test the properties below
ListenArgDocPort(e) ==
    IF e.port.def THEN StrArg(e.port.text) ELSE NumArg(DocStockPort)

ListenArgValidated(e) ==
    IF /\ e.port.def
       /\ AllDigits(e.port.text)
       /\ DecVal(e.port.text) >= 1
       /\ DecVal(e.port.text) <= MaxPort
    THEN StrArg(e.port.text)
    ELSE NumArg(DefaultPort)

ListenArgIgnoresEnv(e) == NumArg(DefaultPort)

\* main.ts:7  process.env.port ?? 3000
ListenArg(e) ==
    IF e.port.def THEN StrArg(e.port.text) ELSE NumArg(DefaultPort)

\* -------------------------------------------------------------- endpoints

NoEndpoint == [kind |-> "none", port |-> 0, path |-> <<>>]
Tcp(n) == [kind |-> "tcp", port |-> n, path |-> <<>>]
Pipe(t) == [kind |-> "pipe", port |-> 0, path |-> t]
BadPort == [kind |-> "bad", port |-> 0, path |-> <<>>]

\* What app.listen(arg) asks of the host (net.Server.listen): a text that is
\* not a number >= 0 names an IPC path; otherwise the port is validated
\* (not empty, at most MaxPort) and converted to an integer.
ListenTarget(arg) ==
    IF arg.kind = "number" THEN Tcp(arg.num)
    ELSE LET n == ToNumber(arg.text) IN
         IF n.nan \/ n.val < 0 THEN Pipe(arg.text)
         ELSE IF arg.text = <<>> \/ n.val > MaxPort THEN BadPort
         ELSE Tcp(n.val)

InUseShared(ep, p) == FALSE

\* the host's bind exclusivity: another live process holds the endpoint
InUse(ep, p) == \E q \in Procs \ {p} : pc[q] = "Listening" /\ bound[q] = ep

\* ------------------------------------------------------------------ state

Init ==
    /\ env \in [Procs -> Envs]
    /\ env[Auth] = NoEnv
    /\ pc = [p \in Procs |-> "NotStarted"]
    /\ log = [p \in Procs |-> <<>>]
    /\ stderr = [p \in Procs |-> <<>>]
    /\ trace = [p \in Procs |-> <<>>]
    /\ listenArg = [p \in Procs |-> NoArg]
    /\ bound = [p \in Procs |-> NoEndpoint]
    /\ failure = [p \in Procs |-> "none"]
    /\ exitCode = [p \in Procs |-> {}]
    /\ conns = [p \in Procs |-> 0]

Emit(p, evs) == trace' = [trace EXCEPT ![p] = @ \o evs]

\* ---------------------------------------------------------------- actions

BootstrapSilent(p) ==
    /\ p \in Stocks
    /\ pc[p] = "NotStarted"
    /\ pc' = [pc EXCEPT ![p] = "Creating"]
    /\ Emit(p, <<"bootstrap">>)
    /\ UNCHANGED <<env, log, stderr, listenArg, bound, failure, exitCode, conns>>

\* main.ts:9 and 4-5: bootstrap() is entered and writes its log record
Bootstrap(p) ==
    /\ p \in Stocks
    /\ pc[p] = "NotStarted"
    /\ log' = [log EXCEPT ![p] = Append(@, StartMsg)]
    /\ pc' = [pc EXCEPT ![p] = "Creating"]
    /\ Emit(p, <<"bootstrap", "log">>)
    /\ UNCHANGED <<env, stderr, listenArg, bound, failure, exitCode, conns>>

CreateIgnoresFailure(p) ==
    /\ p \in Stocks
    /\ pc[p] = "Creating"
    /\ \E ok \in BOOLEAN :
         /\ pc' = [pc EXCEPT ![p] = "Created"]
         /\ Emit(p, IF ok THEN <<"create_ok">> ELSE <<"create_fail">>)
         /\ failure' = [failure EXCEPT ![p] = IF ok THEN "none" ELSE "CREATE"]
    /\ UNCHANGED <<env, log, stderr, listenArg, bound, exitCode, conns>>

\* main.ts:6: await NestFactory.create(StockModule); a failed creation ends
\* the process (abortOnError, exit status 1)
Create(p) ==
    /\ p \in Stocks
    /\ pc[p] = "Creating"
    /\ \/ /\ pc' = [pc EXCEPT ![p] = "Created"]
          /\ Emit(p, <<"create_ok">>)
          /\ UNCHANGED <<failure, exitCode, stderr>>
       \/ /\ pc' = [pc EXCEPT ![p] = "Stopped"]
          /\ Emit(p, <<"create_fail", "exit">>)
          /\ failure' = [failure EXCEPT ![p] = "CREATE"]
          /\ exitCode' = [exitCode EXCEPT ![p] = {1}]
          /\ stderr' = [stderr EXCEPT ![p] = Append(@, "CREATE")]
    /\ UNCHANGED <<env, log, listenArg, bound, conns>>

\* the outcome of one bind of target tg by process p
Bind(p, tg) ==
    IF tg.kind = "bad" THEN
        /\ pc' = [pc EXCEPT ![p] = "Rejected"]
        /\ failure' = [failure EXCEPT ![p] = "ERR_SOCKET_BAD_PORT"]
        /\ Emit(p, <<"listen_call", "listen_fail">>)
        /\ UNCHANGED bound
    ELSE IF tg.kind = "tcp" /\ tg.port = 0 THEN
        \E n \in EphemeralPorts :
            /\ ~InUse(Tcp(n), p)
            /\ pc' = [pc EXCEPT ![p] = "Listening"]
            /\ bound' = [bound EXCEPT ![p] = Tcp(n)]
            /\ Emit(p, <<"listen_call", "listen_ok">>)
            /\ UNCHANGED failure
    ELSE
        \/ /\ tg.kind = "tcp"
           /\ tg.port < PrivilegedLimit
           /\ pc' = [pc EXCEPT ![p] = "Rejected"]
           /\ failure' = [failure EXCEPT ![p] = "EACCES"]
           /\ Emit(p, <<"listen_call", "listen_fail">>)
           /\ UNCHANGED bound
        \/ /\ InUse(tg, p)
           /\ pc' = [pc EXCEPT ![p] = "Rejected"]
           /\ failure' = [failure EXCEPT ![p] = "EADDRINUSE"]
           /\ Emit(p, <<"listen_call", "listen_fail">>)
           /\ UNCHANGED bound
        \/ /\ ~InUse(tg, p)
           /\ pc' = [pc EXCEPT ![p] = "Listening"]
           /\ bound' = [bound EXCEPT ![p] = tg]
           /\ Emit(p, <<"listen_call", "listen_ok">>)
           /\ UNCHANGED failure

\* main.ts:7: await app.listen(process.env.port ?? 3000)
Listen(p) ==
    /\ p \in Stocks
    /\ pc[p] = "Created"
    /\ listenArg' = [listenArg EXCEPT ![p] = ListenArg(env[p])]
    /\ Bind(p, ListenTarget(ListenArg(env[p])))
    /\ UNCHANGED <<env, log, stderr, exitCode, conns>>

UnhandledRejectionSwallowed(p) ==
    /\ pc[p] = "Rejected"
    /\ pc' = [pc EXCEPT ![p] = "Stopped"]
    /\ exitCode' = [exitCode EXCEPT ![p] = {0}]
    /\ Emit(p, <<"exit">>)
    /\ UNCHANGED <<env, log, stderr, listenArg, bound, failure, conns>>

\* main.ts:9: bootstrap() is called with no handler on its promise; Node 20
\* ends the process on the unhandled rejection, reporting it, with status 1
UnhandledRejection(p) ==
    /\ pc[p] = "Rejected"
    /\ pc' = [pc EXCEPT ![p] = "Stopped"]
    /\ stderr' = [stderr EXCEPT ![p] = Append(@, failure[p])]
    /\ exitCode' = [exitCode EXCEPT ![p] = {1}]
    /\ Emit(p, <<"exit">>)
    /\ UNCHANGED <<env, log, listenArg, bound, failure, conns>>

\* a client connects to a listening process
Accept(p) ==
    /\ p \in Stocks
    /\ pc[p] = "Listening"
    /\ conns[p] < MaxConns
    /\ conns' = [conns EXCEPT ![p] = @ + 1]
    /\ UNCHANGED <<env, pc, log, stderr, trace, listenArg, bound, failure, exitCode>>

\* a connection in flight completes
Complete(p) ==
    /\ p \in Stocks
    /\ pc[p] = "Listening"
    /\ conns[p] > 0
    /\ conns' = [conns EXCEPT ![p] = @ - 1]
    /\ UNCHANGED <<env, pc, log, stderr, trace, listenArg, bound, failure, exitCode>>

SignalGraceful(p) ==
    /\ p \in Stocks
    /\ pc[p] \in {"Creating", "Created", "Listening"}
    /\ IF pc[p] = "Listening" /\ conns[p] > 0
       THEN /\ pc' = [pc EXCEPT ![p] = "Stopping"]
            /\ UNCHANGED <<exitCode, bound, conns>>
            /\ Emit(p, <<"signal">>)
       ELSE /\ pc' = [pc EXCEPT ![p] = "Stopped"]
            /\ exitCode' = [exitCode EXCEPT ![p] = {0}]
            /\ bound' = [bound EXCEPT ![p] = NoEndpoint]
            /\ conns' = [conns EXCEPT ![p] = 0]
            /\ Emit(p, <<"signal", "exit">>)
    /\ UNCHANGED <<env, log, stderr, listenArg, failure>>

\* main.ts:1-9 installs no signal handler and enables no shutdown hook: a
\* shutdown signal ends the process at once, with its sockets
Signal(p) ==
    /\ p \in Stocks
    /\ pc[p] \in {"Creating", "Created", "Listening"}
    /\ pc' = [pc EXCEPT ![p] = "Stopped"]
    /\ exitCode' = [exitCode EXCEPT ![p] = {SignalExit}]
    /\ bound' = [bound EXCEPT ![p] = NoEndpoint]
    /\ conns' = [conns EXCEPT ![p] = 0]
    /\ Emit(p, IF conns[p] > 0 THEN <<"signal", "drop", "exit">>
                ELSE <<"signal", "exit">>)
    /\ UNCHANGED <<env, log, stderr, listenArg, failure>>

\* the auth service of the guide: started with no override, it listens on
\* its assigned port
AuthStart ==
    /\ pc[Auth] = "NotStarted"
    /\ listenArg' = [listenArg EXCEPT ![Auth] = NumArg(AuthPort)]
    /\ Bind(Auth, Tcp(AuthPort))
    /\ UNCHANGED <<env, log, stderr, exitCode, conns>>

Next ==
    \/ \E p \in Procs : Bootstrap(p)
    \/ \E p \in Procs : Create(p)
    \/ \E p \in Procs : Listen(p)
    \/ \E p \in Procs : UnhandledRejection(p)
    \/ \E p \in Procs : Accept(p)
    \/ \E p \in Procs : Complete(p)
    \/ \E p \in Procs : Signal(p)
    \/ AuthStart

Spec == Init /\ [][Next]_vars

\* ---------------------------------------------------------------- helpers

Occurred(p, ev) == \E i \in 1..Len(trace[p]) : trace[p][i] = ev

Count(p, ev) == Cardinality({ i \in 1..Len(trace[p]) : trace[p][i] = ev })

Before(p, a, b) ==
    \E i, j \in 1..Len(trace[p]) : i < j /\ trace[p][i] = a /\ trace[p][j] = b

BindFailures == {"EADDRINUSE", "EACCES", "ERR_SOCKET_BAD_PORT"}

TypeOK ==
    /\ pc \in [Procs -> {"NotStarted", "Creating", "Created", "Rejected",
                         "Listening", "Stopped"}]
    /\ \A p \in Procs : conns[p] \in 0..MaxConns

\* the scheduling of the runtime: a rejection nobody handles is processed
FairSpec == Spec /\ \A p \in Procs : WF_vars(UnhandledRejection(p))

NoOverride(e) == ~e.port.def /\ ~e.PORT.def

\* the decimal texts of the model and the integers they denote
IntOfText(t) ==
    CASE t = <<"3", "0", "0", "1">> -> 3001
      [] t = <<"3", "0", "0", "0">> -> 3000
      [] t = <<"8", "0">> -> 80
      [] OTHER -> 0

ValidTexts == { <<"3", "0", "0", "1">>, <<"3", "0", "0", "0">>, <<"8", "0">> }

TooLargeTexts == { <<"7", "0", "0", "0", "0">> }

ExitedNonZero(p) == exitCode[p] # {} /\ 0 \notin exitCode[p]

\* ------------------------------------------------------------------- C1

C2_UpperCasePortWins ==
    \A p \in Stocks :
        ( /\ env[p].PORT = Str(<<"3", "0", "0", "1">>)
          /\ ~env[p].port.def
          /\ pc[p] = "Listening" )
        => bound[p] = Tcp(3001)

\* ------------------------------------------------------------------- C3

InvalidOverride(e) == e.port.def /\ e.port.text \notin ValidTexts

C4_ValidOverrideBound ==
    \A p \in Stocks :
        (env[p].port.def /\ env[p].port.text \in ValidTexts) =>
            /\ Occurred(p, "listen_call") =>
                 listenArg[p] = StrArg(env[p].port.text)
            /\ pc[p] = "Listening" =>
                 bound[p] = Tcp(IntOfText(env[p].port.text))

C4_Witness ==
    \E p \in Stocks :
        /\ env[p].port = Str(<<"3", "0", "0", "1">>)
        /\ pc[p] = "Listening"
        /\ bound[p] = Tcp(3001)

\* ------------------------------------------------------------------- C5

C5_Safety ==
    \A p \in Stocks :
        /\ failure[p] \in BindFailures =>
             /\ ~Occurred(p, "listen_ok")
             /\ Count(p, "listen_call") = 1
             /\ pc[p] \in {"Rejected", "Stopped"}
             /\ bound[p] = NoEndpoint
             /\ pc[p] = "Stopped" =>
                  /\ ExitedNonZero(p)
                  /\ stderr[p] = <<failure[p]>>
        /\ (failure[p] # "none" /\ pc[p] = "Stopped") => ExitedNonZero(p)

\* C5: a failed bind takes the bootstrap to Stopped without Listening ever
\* being entered, the bind is attempted once only, and the process ends with
\* a non-zero exit status after reporting the failure; no run with a failed
\* bootstrap ends with exit status 0.
C5_BindFailureFatal ==
    /\ []C5_Safety
    /\ \A p \in Stocks : (pc[p] = "Rejected") ~> (pc[p] = "Stopped")

C5_Witness ==
    \E p \in Stocks :
        /\ failure[p] = "EADDRINUSE"
        /\ pc[p] = "Stopped"
        /\ exitCode[p] = {1}

\* ------------------------------------------------------------------- C6

C6_Exclusive ==
    /\ \A p, q \in Procs :
         (p # q /\ pc[p] = "Listening" /\ pc[q] = "Listening")
         => bound[p] # bound[q]
    /\ \A p \in Procs :
         (failure[p] = "EADDRINUSE" /\ pc[p] = "Stopped") => ExitedNonZero(p)
    /\ \A p, q \in Procs :
         ( /\ p # q
           /\ Occurred(p, "listen_call") /\ Occurred(q, "listen_call")
           /\ ~Occurred(p, "signal") /\ ~Occurred(q, "signal")
           /\ \A r \in Procs \ {p, q} :
                ListenTarget(listenArg[r]) # ListenTarget(listenArg[p])
           /\ ListenTarget(listenArg[p]) = ListenTarget(listenArg[q])
           /\ ListenTarget(listenArg[p]).kind = "tcp"
           /\ ListenTarget(listenArg[p]).port >= PrivilegedLimit )
         => /\ Occurred(p, "listen_ok") # Occurred(q, "listen_ok")
            /\ Occurred(p, "listen_fail") # Occurred(q, "listen_fail")

C6_Step ==
    \A p \in Stocks : \A q \in Procs \ {p} :
        ( /\ pc[p] = "Created"
          /\ pc'[p] \in {"Listening", "Rejected"}
          /\ pc[q] = "Listening"
          /\ bound[q] = ListenTarget(listenArg'[p]) )
        => /\ pc'[p] = "Rejected"
           /\ failure'[p] \in {"EADDRINUSE", "EACCES"}
           /\ bound'[p] = NoEndpoint
           /\ pc'[q] = "Listening"
           /\ bound'[q] = bound[q]
           /\ conns'[q] = conns[q]

\* C6: of two processes started against the same port at most one is ever
\* listening on it: one start succeeds, the other fails at the bind and exits
\* non-zero, and the process already listening stays listening, untouched by
\* the failed attempt.
C6_OneListenerPerPort == []C6_Exclusive /\ [][C6_Step]_vars

C6_Witness ==
    \E p, q \in Stocks :
        /\ p # q
        /\ pc[p] = "Listening"
        /\ bound[p] = Tcp(3000)
        /\ listenArg[q] = listenArg[p]
        /\ failure[q] = "EADDRINUSE"
        /\ pc[q] = "Stopped"
        /\ exitCode[q] = {1}

\* ------------------------------------------------------------------- C7

\* C7 as stated: with no override the stock service binds its own default
\* port 3001, distinct from the auth service's 3000, so the two never
\* contend for a port.
C7_DistinctDefaults ==
    \A p \in Stocks :
        NoOverride(env[p]) =>
            /\ pc[p] = "Listening" => bound[p] = Tcp(DocStockPort)
            /\ Occurred(p, "listen_call") =>
                 ListenTarget(listenArg[p]) # Tcp(AuthPort)

\* ------------------------------------------------------------------- C8

\* C8: with no port override in the environment the listener receives the
\* fixed default 3000 and the port bound is 3000; the environment the value
\* is resolved from does not change during the run.
C8_Inv ==
    \A p \in Stocks :
        NoOverride(env[p]) =>
            /\ Occurred(p, "listen_call") => listenArg[p] = NumArg(3000)
            /\ pc[p] = "Listening" => bound[p] = Tcp(3000)

C10_Sequential ==
    \A p \in Stocks :
        /\ Count(p, "bootstrap") <= 1
        /\ Count(p, "listen_call") <= 1
        /\ Occurred(p, "listen_call") => Before(p, "create_ok", "listen_call")
        /\ Occurred(p, "create_ok") => Before(p, "bootstrap", "create_ok")
        /\ Occurred(p, "create_fail") =>
             /\ ~Occurred(p, "listen_call")
             /\ ~Occurred(p, "listen_ok")
             /\ bound[p] = NoEndpoint
             /\ pc[p] = "Stopped"

C10_Witness ==
    \E p, q \in Stocks :
        /\ Occurred(p, "create_fail")
        /\ pc[p] = "Stopped"
        /\ Before(q, "create_ok", "listen_ok")
        /\ pc[q] = "Listening"

====
